---- MODULE Spec2Model ----
(***************************************************************************)
(* Model of the SecretBox container of src/lib.rs: a boxed secret whose    *)
(* page is pinned (mlock) and protected (mprotect), exposed through        *)
(* expose_secret / expose_secret_mut and wiped by zeroize / drop.          *)
(*                                                                         *)
(* Every container occupies one slot of Boxes.  A slot records the heap    *)
(* value, the state of the page holding it (protection, pinned), the       *)
(* references handed out and not yet ended, and the position of the call   *)
(* that is running on it.  The OS calls mlock, mprotect and munlock report *)
(* success or failure; the outcome is an input of every step that issues   *)
(* one.  A load or store on a page whose protection forbids it faults and  *)
(* ends the process.                                                       *)
(***************************************************************************)
EXTENDS Naturals, FiniteSets, Sequences

MaxBoxes == 2
MaxVal == 1
MaxShared == 2
MaxZeroize == 1

Boxes == 1..MaxBoxes
Values == 0..MaxVal
Errors == {"E1", "E2"}

\* What Zeroize leaves behind, and what S::default() yields.
Zero == 0
NoData == MaxVal + 1

PROT_NONE == "PROT_NONE"
PROT_READ == "PROT_READ"
PROT_READ_WRITE == "PROT_READ|PROT_WRITE"
Prots == {PROT_NONE, PROT_READ, PROT_READ_WRITE}

\* Outcome of one mlock / mprotect / munlock call.
OsResults == BOOLEAN

\* any::type_name::<S>() and what Debug::fmt writes.
type_name == "S"
Redacted == "SecretBox<" \o type_name \o ">([REDACTED])"

VARIABLES
    pc,            \* per slot: the position of the call running on it
    ctor,          \* per slot: the constructor that built the container
    inner_secret,  \* per slot: the value in the Box
    prot,          \* per slot: protection of the page holding the value
    pinned,        \* per slot: mlock issued and no munlock since
    shared,        \* per slot: live references returned by expose_secret
    mutrefs,       \* per slot: live references returned by expose_secret_mut
    data,          \* per slot: the value the caller's ctr produced outside the Box
    ctr_result,    \* per slot: what the caller's ctr returned to try_new_with_ctr
    ret,           \* per slot: the Result try_new_with_ctr returned
    in_drop,       \* per slot: zeroize was entered from drop
    munlocks,      \* per slot: munlock calls issued
    last_expose,   \* per slot: the most recent exposure call
    last_written,  \* per slot: the value constructed or last stored through a &mut S
    seen,          \* per slot: the value last loaded through a live &S
    page,          \* per slot: the page the allocator put the Box on
    out,           \* what Debug::fmt last wrote to a formatter
    fault          \* a load or store hit a page that forbids it

vars == <<pc, ctor, inner_secret, prot, pinned, shared, mutrefs, data,
          ctr_result, ret, in_drop, munlocks, last_expose, last_written,
          seen, page, out, fault>>

Upd(f, c, v) == [f EXCEPT ![c] = v]

Readable(p) == p \in {PROT_READ, PROT_READ_WRITE}
Writable(p) == p = PROT_READ_WRITE

TypeOK ==
    /\ pc \in [Boxes -> {"unused", "new_mlock", "new_mprotect", "mut_expose",
                         "mut_ctr", "ctr_box", "ctr_zeroize", "try_ctr",
                         "live", "zeroize_munlock", "zeroize_mprotect",
                         "zeroize_inner", "drop_box", "released",
                         "returned_err"}]
    /\ ctor \in [Boxes -> {"none", "new", "default", "new_with_mut",
                           "new_with_ctr", "try_new_with_ctr", "clone"}]
    /\ inner_secret \in [Boxes -> Values \cup {NoData}]
    /\ prot \in [Boxes -> Prots]
    /\ pinned \in [Boxes -> BOOLEAN]
    /\ shared \in [Boxes -> 0..MaxShared]
    /\ mutrefs \in [Boxes -> 0..1]
    /\ data \in [Boxes -> Values \cup {NoData}]
    /\ ctr_result \in [Boxes -> {"none", "Ok"} \cup Errors]
    /\ ret \in [Boxes -> {"none", "Ok"} \cup Errors]
    /\ in_drop \in [Boxes -> BOOLEAN]
    /\ munlocks \in [Boxes -> 0..(MaxZeroize + 1)]
    /\ last_expose \in [Boxes -> {"none", "expose_secret", "expose_secret_mut"}]
    /\ last_written \in [Boxes -> Values \cup {NoData}]
    /\ seen \in [Boxes -> Values \cup {NoData}]
    /\ page \in [Boxes -> Boxes]
    /\ out \in {"", Redacted}
    /\ fault \in BOOLEAN

Init ==
    /\ pc = [c \in Boxes |-> "unused"]
    /\ ctor = [c \in Boxes |-> "none"]
    /\ inner_secret = [c \in Boxes |-> NoData]
    /\ prot = [c \in Boxes |-> PROT_READ_WRITE]
    /\ pinned = [c \in Boxes |-> FALSE]
    /\ shared = [c \in Boxes |-> 0]
    /\ mutrefs = [c \in Boxes |-> 0]
    /\ data = [c \in Boxes |-> NoData]
    /\ ctr_result = [c \in Boxes |-> "none"]
    /\ ret = [c \in Boxes |-> "none"]
    /\ in_drop = [c \in Boxes |-> FALSE]
    /\ munlocks = [c \in Boxes |-> 0]
    /\ last_expose = [c \in Boxes |-> "none"]
    /\ last_written = [c \in Boxes |-> NoData]
    /\ seen = [c \in Boxes |-> NoData]
    /\ page = [c \in Boxes |-> c]
    /\ out = ""
    /\ fault = FALSE

\* Slots are handed out in order: slot c is taken by the next constructor
\* call once every slot before it is taken.
fresh(c) == pc[c] = "unused" /\ \A d \in Boxes : d < c => pc[d] # "unused"

\* The slot holds a Box: its allocation lies on page[c] (after drop_box the
\* freed memory still does).
has_box(c) == pc[c] \notin {"unused", "try_ctr", "ctr_box", "returned_err"}

\* Where the allocator may put the Box of slot c: always on a page of its
\* own, or also on a page that holds another Box.
OwnPage(c) == {c}
AnyPage(c) == {c} \cup {page[d] : d \in {e \in Boxes : has_box(e)}}

\* The pages the allocator may put the Box of slot c on.
Place(c, colocate) == IF colocate THEN AnyPage(c) ELSE OwnPage(c)

\* mlock, mprotect and munlock act on the page covering secret_ptr: f with
\* the entry of every slot on the page of c set to x.
OnPage(f, c, x) == [d \in Boxes |-> IF page[d] = page[c] THEN x ELSE f[d]]

\* Box::new / Box::default: the allocator puts the Box of slot c on page p
\* and the value v is written into it.  A page no Box lies on is ordinary
\* memory: readable, writable, swappable; a page shared with another Box is
\* in the state the calls on that Box left it in, and the write faults if
\* it is not writable.
Allocate(c, v, by, at, p) ==
    LET mates == {d \in Boxes \ {c} : has_box(d) /\ page[d] = p}
        mate == CHOOSE d \in mates : TRUE
        page_prot == IF mates = {} THEN PROT_READ_WRITE ELSE prot[mate]
        page_pinned == IF mates = {} THEN FALSE ELSE pinned[mate]
    IN  IF Writable(page_prot)
        THEN /\ pc' = Upd(pc, c, at)
             /\ ctor' = Upd(ctor, c, by)
             /\ inner_secret' = Upd(inner_secret, c, v)
             /\ last_written' = Upd(last_written, c, v)
             /\ page' = Upd(page, c, p)
             /\ prot' = Upd(prot, c, page_prot)
             /\ pinned' = Upd(pinned, c, page_pinned)
             /\ UNCHANGED fault
        ELSE /\ fault' = TRUE
             /\ UNCHANGED <<pc, ctor, inner_secret, last_written, page, prot,
                            pinned>>

----------------------------------------------------------------------------
\* SecretBox::new(boxed_secret), also From<Box<S>>: Box::into_raw.
new(c, v, p) ==
    /\ ~fault /\ fresh(c)
    /\ Allocate(c, v, "new", "new_mlock", p)
    /\ UNCHANGED <<shared, mutrefs, data, ctr_result, ret, in_drop, munlocks,
                   last_expose, seen, out>>

\* new: mlock(secret_ptr, len); a failure is printed and construction goes on.
new_mlock(c, ok) ==
    /\ ~fault /\ pc[c] = "new_mlock"
    /\ pinned' = IF ok THEN OnPage(pinned, c, TRUE) ELSE pinned
    /\ pc' = Upd(pc, c, "new_mprotect")
    /\ UNCHANGED <<ctor, inner_secret, prot, shared, mutrefs, data, ctr_result,
                   ret, in_drop, munlocks, last_expose, last_written, seen,
                   fault>>
    /\ UNCHANGED <<page, out>>

\* new: mprotect(secret_ptr, PROT_NONE); a failure is printed; Box::from_raw
\* and return.
new_mprotect(c, ok) ==
    /\ ~fault /\ pc[c] = "new_mprotect"
    /\ prot' = IF ok THEN OnPage(prot, c, PROT_NONE) ELSE prot
    /\ pc' = Upd(pc, c, "live")
    /\ UNCHANGED <<ctor, inner_secret, pinned, shared, mutrefs, data,
                   ctr_result, ret, in_drop, munlocks, last_expose,
                   last_written, seen, fault>>
    /\ UNCHANGED <<page, out>>

\* Default::default(): Box::<S>::default() and nothing else.
default(c, p) ==
    /\ ~fault /\ fresh(c)
    /\ Allocate(c, Zero, "default", "live", p)
    /\ UNCHANGED <<shared, mutrefs, data, ctr_result, ret, in_drop, munlocks,
                   last_expose, seen, out>>

----------------------------------------------------------------------------
\* &self is available while no &mut borrow of the container is live.
borrow_shared(c) == mutrefs[c] = 0

\* borrow_mut as it would be if expose_secret_mut took &self: shared
\* references no longer exclude it.
borrow_mut_ignores_shared(c) == mutrefs[c] = 0

\* &mut self is available while no borrow of the container is live.
borrow_mut(c) == mutrefs[c] = 0 /\ shared[c] = 0

\* The mprotect of expose_secret: PROT_READ; a failure is printed.
expose_secret(c, ok) ==
    /\ ~fault /\ pc[c] = "live"
    /\ borrow_shared(c) /\ shared[c] < MaxShared
    /\ prot' = IF ok THEN OnPage(prot, c, PROT_READ) ELSE prot
    /\ shared' = Upd(shared, c, shared[c] + 1)
    /\ last_expose' = Upd(last_expose, c, "expose_secret")
    /\ UNCHANGED <<pc, ctor, inner_secret, pinned, mutrefs, data, ctr_result,
                   ret, in_drop, munlocks, last_written, seen, fault>>
    /\ UNCHANGED <<page, out>>

\* The mprotect of expose_secret_mut: PROT_READ | PROT_WRITE; a failure is
\* printed.  The effect is shared by the call inside new_with_mut.
expose_secret_mut_page(c, ok) ==
    /\ prot' = IF ok THEN OnPage(prot, c, PROT_READ_WRITE) ELSE prot
    /\ mutrefs' = Upd(mutrefs, c, mutrefs[c] + 1)
    /\ last_expose' = Upd(last_expose, c, "expose_secret_mut")

\* expose_secret_mut as it would be if it also ran the wipe of zeroize.
expose_secret_mut_wipes(c, ok) ==
    /\ ~fault /\ pc[c] = "live"
    /\ borrow_mut(c)
    /\ expose_secret_mut_page(c, ok)
    /\ inner_secret' = Upd(inner_secret, c, Zero)
    /\ UNCHANGED <<pc, ctor, pinned, shared, data, ctr_result, ret, in_drop,
                   munlocks, last_written, seen, fault>>
    /\ UNCHANGED <<page, out>>

expose_secret_mut(c, ok) ==
    /\ ~fault /\ pc[c] = "live"
    /\ borrow_mut(c)
    /\ expose_secret_mut_page(c, ok)
    /\ UNCHANGED <<pc, ctor, inner_secret, pinned, shared, data, ctr_result,
                   ret, in_drop, munlocks, last_written, seen, fault>>
    /\ UNCHANGED <<page, out>>

\* The holder of a &S or &mut S loads the value.
load(c) ==
    /\ ~fault /\ pc[c] = "live"
    /\ shared[c] > 0 \/ mutrefs[c] > 0
    /\ IF Readable(prot[c])
       THEN seen' = Upd(seen, c, inner_secret[c]) /\ UNCHANGED fault
       ELSE fault' = TRUE /\ UNCHANGED seen
    /\ UNCHANGED <<pc, ctor, inner_secret, prot, pinned, shared, mutrefs, data,
                   ctr_result, ret, in_drop, munlocks, last_expose,
                   last_written>>
    /\ UNCHANGED <<page, out>>

\* The holder of a &mut S stores a value (also the initializer of
\* new_with_mut).
store(c, v) ==
    /\ ~fault /\ pc[c] \in {"live", "mut_ctr"}
    /\ mutrefs[c] > 0
    /\ IF Writable(prot[c])
       THEN /\ inner_secret' = Upd(inner_secret, c, v)
            /\ last_written' = Upd(last_written, c, v)
            /\ seen' = Upd(seen, c, NoData)
            /\ UNCHANGED fault
       ELSE fault' = TRUE /\ UNCHANGED <<inner_secret, last_written, seen>>
    /\ UNCHANGED <<pc, ctor, prot, pinned, shared, mutrefs, data, ctr_result,
                   ret, in_drop, munlocks, last_expose>>
    /\ UNCHANGED <<page, out>>

\* The lifetime of a &S ends.
end_shared(c) ==
    /\ ~fault /\ pc[c] = "live"
    /\ shared[c] > 0
    /\ shared' = Upd(shared, c, shared[c] - 1)
    /\ seen' = Upd(seen, c, IF shared[c] = 1 THEN NoData ELSE seen[c])
    /\ UNCHANGED <<pc, ctor, inner_secret, prot, pinned, mutrefs, data,
                   ctr_result, ret, in_drop, munlocks, last_expose,
                   last_written, fault>>
    /\ UNCHANGED <<page, out>>

\* The lifetime of a &mut S ends.
end_mut(c) ==
    /\ ~fault /\ pc[c] = "live"
    /\ mutrefs[c] > 0
    /\ mutrefs' = Upd(mutrefs, c, mutrefs[c] - 1)
    /\ seen' = Upd(seen, c, NoData)
    /\ UNCHANGED <<pc, ctor, inner_secret, prot, pinned, shared, data,
                   ctr_result, ret, in_drop, munlocks, last_expose,
                   last_written, fault>>
    /\ UNCHANGED <<page, out>>

----------------------------------------------------------------------------
\* new_with_mut: let mut secret = Self::default().
new_with_mut(c, p) ==
    /\ ~fault /\ fresh(c)
    /\ Allocate(c, Zero, "new_with_mut", "mut_expose", p)
    /\ UNCHANGED <<shared, mutrefs, data, ctr_result, ret, in_drop, munlocks,
                   last_expose, seen, out>>

\* new_with_mut: secret.expose_secret_mut(), handed to ctr.
new_with_mut_expose(c, ok) ==
    /\ ~fault /\ pc[c] = "mut_expose"
    /\ expose_secret_mut_page(c, ok)
    /\ pc' = Upd(pc, c, "mut_ctr")
    /\ UNCHANGED <<ctor, inner_secret, pinned, shared, data, ctr_result, ret,
                   in_drop, munlocks, last_written, seen, fault>>
    /\ UNCHANGED <<page, out>>

\* new_with_mut: ctr returns, its &mut S ends, secret is returned.
new_with_mut_return(c) ==
    /\ ~fault /\ pc[c] = "mut_ctr"
    /\ mutrefs' = Upd(mutrefs, c, mutrefs[c] - 1)
    /\ pc' = Upd(pc, c, "live")
    /\ UNCHANGED <<ctor, inner_secret, prot, pinned, shared, data, ctr_result,
                   ret, in_drop, munlocks, last_expose, last_written, seen, fault>>
    /\ UNCHANGED <<page, out>>

----------------------------------------------------------------------------
\* new_with_ctr: let mut data = ctr().
new_with_ctr(c, v) ==
    /\ ~fault /\ fresh(c)
    /\ data' = Upd(data, c, v)
    /\ ctor' = Upd(ctor, c, "new_with_ctr")
    /\ pc' = Upd(pc, c, "ctr_box")
    /\ UNCHANGED <<inner_secret, prot, pinned, shared, mutrefs, ctr_result,
                   ret, in_drop, munlocks, last_expose, last_written, seen, fault>>
    /\ UNCHANGED <<page, out>>

\* try_new_with_ctr: the caller's ctr runs.  It materialises v in ordinary
\* memory and returns Ok(v), or returns Err(e) after materialising v or
\* nothing (NoData).
try_new_with_ctr(c, v, r) ==
    /\ ~fault /\ fresh(c)
    /\ r = "Ok" => v \in Values
    /\ data' = Upd(data, c, v)
    /\ ctr_result' = Upd(ctr_result, c, r)
    /\ ctor' = Upd(ctor, c, "try_new_with_ctr")
    /\ pc' = Upd(pc, c, "try_ctr")
    /\ UNCHANGED <<inner_secret, prot, pinned, shared, mutrefs, ret, in_drop,
                   munlocks, last_expose, last_written, seen,
                   fault>>
    /\ UNCHANGED <<page, out>>

\* try_new_with_ctr: the ? of ctr()?; Err(e) returns Err(From::from(e)).
try_new_with_ctr_question(c) ==
    /\ ~fault /\ pc[c] = "try_ctr"
    /\ IF ctr_result[c] = "Ok"
       THEN pc' = Upd(pc, c, "ctr_box") /\ UNCHANGED ret
       ELSE /\ pc' = Upd(pc, c, "returned_err")
            /\ ret' = Upd(ret, c, ctr_result[c])
    /\ UNCHANGED <<ctor, inner_secret, prot, pinned, shared, mutrefs, data,
                   ctr_result, in_drop, munlocks, last_expose, last_written,
                   seen, fault>>
    /\ UNCHANGED <<page, out>>

\* new_with_ctr / try_new_with_ctr: Self { inner_secret: Box::new(data.clone()) }.
ctr_box(c, p) ==
    /\ ~fault /\ pc[c] = "ctr_box"
    /\ Allocate(c, data[c], ctor[c], "ctr_zeroize", p)
    /\ UNCHANGED <<shared, mutrefs, data, ctr_result, ret, in_drop, munlocks,
                   last_expose, seen, out>>

\* ctr_zeroize as it would be if the data.zeroize() call were missing.
ctr_zeroize_missing(c) ==
    /\ ~fault /\ pc[c] = "ctr_zeroize"
    /\ ret' = Upd(ret, c, IF ctor[c] = "try_new_with_ctr" THEN "Ok" ELSE ret[c])
    /\ pc' = Upd(pc, c, "live")
    /\ UNCHANGED <<ctor, inner_secret, prot, pinned, shared, mutrefs, data,
                   ctr_result, in_drop, munlocks, last_expose, last_written,
                   seen, fault>>
    /\ UNCHANGED <<page, out>>

\* new_with_ctr / try_new_with_ctr: data.zeroize(); return secret / Ok(secret).
ctr_zeroize(c) ==
    /\ ~fault /\ pc[c] = "ctr_zeroize"
    /\ data' = Upd(data, c, Zero)
    /\ ret' = Upd(ret, c, IF ctor[c] = "try_new_with_ctr" THEN "Ok" ELSE ret[c])
    /\ pc' = Upd(pc, c, "live")
    /\ UNCHANGED <<ctor, inner_secret, prot, pinned, shared, mutrefs,
                   ctr_result, in_drop, munlocks, last_expose, last_written,
                   seen, fault>>
    /\ UNCHANGED <<page, out>>

----------------------------------------------------------------------------
\* clone as it would be if it boxed S::default() instead of a copy.
clone_default(src, dst, p) ==
    /\ ~fault /\ pc[src] = "live" /\ fresh(dst)
    /\ borrow_shared(src)
    /\ Allocate(dst, Zero, "clone", "live", p)
    /\ UNCHANGED <<shared, mutrefs, data, ctr_result, ret, in_drop, munlocks,
                   last_expose, seen, out>>

\* Clone::clone(&self): self.inner_secret.clone() loads the value of src and
\* boxes the copy.
clone(src, dst, p) ==
    /\ ~fault /\ pc[src] = "live" /\ fresh(dst)
    /\ borrow_shared(src)
    /\ IF Readable(prot[src])
       THEN Allocate(dst, inner_secret[src], "clone", "live", p)
       ELSE /\ fault' = TRUE
            /\ UNCHANGED <<pc, ctor, inner_secret, last_written, page, prot,
                           pinned>>
    /\ UNCHANGED <<shared, mutrefs, data, ctr_result, ret, in_drop, munlocks,
                   last_expose, seen, out>>

----------------------------------------------------------------------------
\* fmt as it would be if it wrote the secret instead of [REDACTED].
fmt_secret(c) ==
    /\ ~fault /\ pc[c] = "live"
    /\ borrow_shared(c)
    /\ out' = IF inner_secret[c] = Zero
              THEN Redacted
              ELSE "SecretBox<" \o type_name \o ">(secret)"
    /\ UNCHANGED <<pc, ctor, inner_secret, prot, pinned, shared, mutrefs, data,
                   ctr_result, ret, in_drop, munlocks, last_expose,
                   last_written, seen, page, fault>>

\* Debug::fmt(&self, f): write!(f, "SecretBox<{}>([REDACTED])", type_name).
fmt(c) ==
    /\ ~fault /\ pc[c] = "live"
    /\ borrow_shared(c)
    /\ out' = Redacted
    /\ UNCHANGED <<pc, ctor, inner_secret, prot, pinned, shared, mutrefs, data,
                   ctr_result, ret, in_drop, munlocks, last_expose,
                   last_written, seen, page, fault>>

----------------------------------------------------------------------------
\* Zeroize::zeroize(&mut self) called by the owner of a live container.
zeroize(c) ==
    /\ ~fault /\ pc[c] = "live"
    /\ borrow_mut(c)
    /\ munlocks[c] < MaxZeroize
    /\ pc' = Upd(pc, c, "zeroize_munlock")
    /\ in_drop' = Upd(in_drop, c, FALSE)
    /\ UNCHANGED <<ctor, inner_secret, prot, pinned, shared, mutrefs, data,
                   ctr_result, ret, munlocks, last_expose, last_written, seen, fault>>
    /\ UNCHANGED <<page, out>>

\* Drop::drop(&mut self): the owner lets the container go; self.zeroize().
drop(c) ==
    /\ ~fault /\ pc[c] = "live"
    /\ borrow_mut(c)
    /\ pc' = Upd(pc, c, "zeroize_munlock")
    /\ in_drop' = Upd(in_drop, c, TRUE)
    /\ UNCHANGED <<ctor, inner_secret, prot, pinned, shared, mutrefs, data,
                   ctr_result, ret, munlocks, last_expose, last_written, seen, fault>>
    /\ UNCHANGED <<page, out>>

\* zeroize: munlock(secret_ptr, len); a failure is printed.
zeroize_munlock(c, ok) ==
    /\ ~fault /\ pc[c] = "zeroize_munlock"
    /\ pinned' = IF ok THEN OnPage(pinned, c, FALSE) ELSE pinned
    /\ munlocks' = Upd(munlocks, c, munlocks[c] + 1)
    /\ pc' = Upd(pc, c, "zeroize_mprotect")
    /\ UNCHANGED <<ctor, inner_secret, prot, shared, mutrefs, data, ctr_result,
                   ret, in_drop, last_expose, last_written, seen, fault>>
    /\ UNCHANGED <<page, out>>

\* zeroize: mprotect(secret_ptr, PROT_READ | PROT_WRITE); a failure is printed.
zeroize_mprotect(c, ok) ==
    /\ ~fault /\ pc[c] = "zeroize_mprotect"
    /\ prot' = IF ok THEN OnPage(prot, c, PROT_READ_WRITE) ELSE prot
    /\ pc' = Upd(pc, c, "zeroize_inner")
    /\ UNCHANGED <<ctor, inner_secret, pinned, shared, mutrefs, data,
                   ctr_result, ret, in_drop, munlocks, last_expose,
                   last_written, seen, fault>>
    /\ UNCHANGED <<page, out>>

\* zeroize_inner as it would be if the inner zeroize() call were missing.
zeroize_inner_missing(c) ==
    /\ ~fault /\ pc[c] = "zeroize_inner"
    /\ pc' = Upd(pc, c, IF in_drop[c] THEN "drop_box" ELSE "live")
    /\ UNCHANGED <<ctor, inner_secret, prot, pinned, shared, mutrefs, data,
                   ctr_result, ret, in_drop, munlocks, last_expose,
                   last_written, seen, fault>>
    /\ UNCHANGED <<page, out>>

\* zeroize: self.inner_secret.as_mut().zeroize() stores zero over the value.
zeroize_inner(c) ==
    /\ ~fault /\ pc[c] = "zeroize_inner"
    /\ IF Writable(prot[c])
       THEN /\ inner_secret' = Upd(inner_secret, c, Zero)
            /\ last_written' = Upd(last_written, c, Zero)
            /\ pc' = Upd(pc, c, IF in_drop[c] THEN "drop_box" ELSE "live")
            /\ UNCHANGED fault
       ELSE fault' = TRUE /\ UNCHANGED <<inner_secret, last_written, pc>>
    /\ UNCHANGED <<ctor, prot, pinned, shared, mutrefs, data, ctr_result, ret,
                   in_drop, munlocks, last_expose, seen>>
    /\ UNCHANGED <<page, out>>

\* After Drop::drop returns, the field inner_secret: Box<S> is dropped and
\* its allocation freed.
drop_box(c) ==
    /\ ~fault /\ pc[c] = "drop_box"
    /\ pc' = Upd(pc, c, "released")
    /\ UNCHANGED <<ctor, inner_secret, prot, pinned, shared, mutrefs, data,
                   ctr_result, ret, in_drop, munlocks, last_expose,
                   last_written, seen, fault>>
    /\ UNCHANGED <<page, out>>

----------------------------------------------------------------------------
\* One step of the program; R is the set of outcomes an OS call may report,
\* colocate: the allocator may put several Boxes on one page.
Step(R, colocate) ==
    \/ \E c \in Boxes, v \in Values : \E p \in Place(c, colocate) : new(c, v, p)
    \/ \E c \in Boxes, ok \in R : new_mlock(c, ok)
    \/ \E c \in Boxes, ok \in R : new_mprotect(c, ok)
    \/ \E c \in Boxes : \E p \in Place(c, colocate) : default(c, p)
    \/ \E c \in Boxes : \E p \in Place(c, colocate) : new_with_mut(c, p)
    \/ \E c \in Boxes, ok \in R : new_with_mut_expose(c, ok)
    \/ \E c \in Boxes : new_with_mut_return(c)
    \/ \E c \in Boxes, v \in Values : new_with_ctr(c, v)
    \/ \E c \in Boxes, v \in Values \cup {NoData}, r \in {"Ok"} \cup Errors :
          try_new_with_ctr(c, v, r)
    \/ \E c \in Boxes : try_new_with_ctr_question(c)
    \/ \E c \in Boxes : \E p \in Place(c, colocate) : ctr_box(c, p)
    \/ \E c \in Boxes : ctr_zeroize(c)
    \/ \E src \in Boxes, dst \in Boxes : \E p \in Place(dst, colocate) :
          clone(src, dst, p)
    \/ \E c \in Boxes, ok \in R : expose_secret(c, ok)
    \/ \E c \in Boxes, ok \in R : expose_secret_mut(c, ok)
    \/ \E c \in Boxes : load(c)
    \/ \E c \in Boxes, v \in Values : store(c, v)
    \/ \E c \in Boxes : end_shared(c)
    \/ \E c \in Boxes : end_mut(c)
    \/ \E c \in Boxes : fmt(c)
    \/ \E c \in Boxes : zeroize(c)
    \/ \E c \in Boxes : drop(c)
    \/ \E c \in Boxes, ok \in R : zeroize_munlock(c, ok)
    \/ \E c \in Boxes, ok \in R : zeroize_mprotect(c, ok)
    \/ \E c \in Boxes : zeroize_inner(c)
    \/ \E c \in Boxes : drop_box(c)

\* The OS calls may fail; every Box lies on a page of its own.
Next == Step(OsResults, FALSE)

Spec == Init /\ [][Next]_vars

\* The OS calls succeed; every Box lies on a page of its own.
NextOsOk == Step({TRUE}, FALSE)

SpecOsOk == Init /\ [][NextOsOk]_vars

\* The OS calls succeed; the allocator may put the Boxes of two containers
\* on one page.
NextSharedPages == Step({TRUE}, TRUE)

SpecSharedPages == Init /\ [][NextSharedPages]_vars

----------------------------------------------------------------------------
\* C1: every live container, whatever constructor built it, has its page
\* pinned from the end of construction to the start of drop.
C1_LivePagePinned ==
    \A c \in Boxes : pc[c] = "live" => pinned[c]

\* C2: a container returned by a constructor other than new_with_mut is
\* no-access until the first expose_secret / expose_secret_mut call on it.
C2_NoAccessUntilExposed ==
    \A c \in Boxes :
        (pc[c] = "live" /\ ctor[c] # "new_with_mut" /\ last_expose[c] = "none"
            /\ munlocks[c] = 0)
        => prot[c] = PROT_NONE

\* C3: an operation whose mlock or mprotect call fails does not complete:
\* new returns a container only with the page pinned and no-access,
\* expose_secret hands out a reference only with the page read-only,
\* expose_secret_mut only with the page read-write, and zeroize finishes
\* only with the page read-write.
C3_FailedOsCallAborts ==
    [][\A c \in Boxes :
        /\ (pc[c] = "new_mprotect" /\ pc'[c] = "live")
              => (pinned'[c] /\ prot'[c] = PROT_NONE)
        /\ (shared'[c] > shared[c]) => prot'[c] = PROT_READ
        /\ (mutrefs'[c] > mutrefs[c]) => prot'[c] = PROT_READ_WRITE
        /\ (pc[c] = "zeroize_inner" /\ pc'[c] \in {"live", "drop_box"})
              => prot'[c] = PROT_READ_WRITE]_vars

\* C4: once drop has run, whatever the constructor, the protection and the
\* exposure calls before it, the secret's bytes are zero and the page is not
\* pinned (the OS calls succeed: SpecOsOk).
C4_DropReleases ==
    \A c \in Boxes :
        pc[c] \in {"drop_box", "released"}
        => (inner_secret[c] = Zero /\ ~pinned[c])

\* C4 witness: a container built by new with a non-zero secret was dropped
\* without ever being exposed (from no-access), and another one after
\* exposure.
C4_Witness ==
    \E c \in Boxes :
        /\ pc[c] = "released" /\ ctor[c] = "new"
        /\ last_expose[c] = "none" /\ munlocks[c] = 1

\* C5: drop zeroes, then unpins, then frees: the page of a container that
\* was pinned when drop began is still pinned at the step that overwrites
\* the bytes (the OS calls succeed: SpecOsOk).
C5_PinnedWhileZeroing ==
    \A c \in Boxes :
        (pc[c] = "zeroize_inner" /\ ctor[c] = "new" /\ munlocks[c] = 1)
        => pinned[c]

\* C6: in new_with_mut the storage is pinned before the initializer runs:
\* at every step at which the initializer may write, the page is pinned.
C6_InitializerWritesPinned ==
    \A c \in Boxes : pc[c] = "mut_ctr" => pinned[c]

\* C7: the value loaded through a reference equals the value constructed or
\* last stored through a &mut S, and no call other than such a store (and
\* the wipe of zeroize) changes the stored value.
C7_RoundTrip ==
    \A c \in Boxes :
        /\ inner_secret[c] = last_written[c]
        /\ seen[c] # NoData => seen[c] = last_written[c]

\* C7 witness: a container constructed with the zero value shows a
\* non-zero value through a reference of expose_secret: it was stored
\* through expose_secret_mut before.
C7_Witness ==
    \E c \in Boxes :
        /\ ctor[c] = "default" /\ pc[c] = "live" /\ munlocks[c] = 0
        /\ shared[c] > 0 /\ last_expose[c] = "expose_secret"
        /\ seen[c] = MaxVal

\* C8: while a shared reference is live the page is readable, and while a
\* mutable reference is live the page is read-write.
C8_ProtectionCoversLiveReferences ==
    \A c \in Boxes :
        /\ shared[c] > 0 => Readable(prot[c])
        /\ mutrefs[c] > 0 => Writable(prot[c])

\* C9: at most one mutable reference of a container is live, and never
\* together with a shared reference; shared references may coexist.
C9_Exclusivity ==
    \A c \in Boxes :
        /\ mutrefs[c] <= 1
        /\ mutrefs[c] > 0 => shared[c] = 0

\* C9 witness: two shared references of one container coexist while a
\* mutable reference of another container is live and has been used.
C9_Witness ==
    /\ \E c \in Boxes : shared[c] = 2 /\ mutrefs[c] = 0
    /\ \E c \in Boxes : mutrefs[c] = 1 /\ shared[c] = 0 /\ seen[c] # NoData

\* C10: when ctr returns Err(e), try_new_with_ctr returns exactly Err(e), no
\* container exists, no page is pinned, and every secret value materialised
\* during the call has been zeroed.
C10_ErrLeavesNothingBehind ==
    \A c \in Boxes :
        pc[c] = "returned_err"
        => /\ ret[c] = ctr_result[c]
           /\ inner_secret[c] = NoData
           /\ ~pinned[c]
           /\ data[c] \in {NoData, Zero}

C13_ReadIdempotent ==
    [][\A c \in Boxes :
        (last_expose[c] = "expose_secret" /\ munlocks[c] = 0
            /\ shared'[c] > shared[c])
        => /\ prot'[c] = PROT_READ
           /\ prot'[c] = prot[c]
           /\ inner_secret'[c] = inner_secret[c]]_vars

\* The protection the most recent exposure call asks for.
StickyProtection(e) ==
    CASE e = "none" -> PROT_NONE
      [] e = "expose_secret" -> PROT_READ
      [] e = "expose_secret_mut" -> PROT_READ_WRITE

\* C14: the protection of a live container built by SecretBox::new is
\* decided by its most recent exposure call alone: no-access before the
\* first, read-only after expose_secret, read-write after
\* expose_secret_mut.
C14_StickyProtection ==
    \A c \in Boxes :
        (pc[c] = "live" /\ ctor[c] = "new")
        => prot[c] = StickyProtection(last_expose[c])

\* C15: at the step of zeroize / drop that overwrites the bytes with zero,
\* the page is read-write, whatever its protection was before.
C15_WritableWhileZeroing ==
    \A c \in Boxes : pc[c] = "zeroize_inner" => Writable(prot[c])

\* C16: an operation on one container leaves the protection, the pin state
\* and the value of every other live container unchanged: no step changes
\* the state of a container and that of another, live one.
C16_OperationsAreLocal ==
    [][\A a \in Boxes : \A b \in Boxes \ {a} :
        (pc[b] = "live" /\ pc'[b] = "live"
            /\ <<prot'[a], pinned'[a], inner_secret'[a]>>
                  # <<prot[a], pinned[a], inner_secret[a]>>)
        => <<prot'[b], pinned'[b], inner_secret'[b]>>
              = <<prot[b], pinned[b], inner_secret[b]>>]_vars

\* C17: the container's own operations never load the secret from a page
\* that is no-access: a step faults only through a reference a caller holds,
\* never in a load the library does itself, the one of clone included.
C17_NoLoadFromNoAccessPage ==
    [][(~fault /\ fault')
        => \E c \in Boxes : shared[c] > 0 \/ mutrefs[c] > 0]_vars

\* C18: munlock is issued only for a page that is pinned at that moment,
\* and at most once over the lifetime of a container.
C18_MunlockBalanced ==
    [][\A c \in Boxes :
        munlocks'[c] > munlocks[c] => (pinned[c] /\ munlocks[c] = 0)]_vars

\* C19: Debug::fmt writes the same text whatever the container holds and
\* whatever its protection, and changes neither the value, the protection
\* nor the pin state of any container.
C19_DebugRedacted ==
    [][out' # out
        => /\ out' = Redacted
           /\ inner_secret' = inner_secret
           /\ prot' = prot
           /\ pinned' = pinned]_vars

\* C19 witness: something was formatted while two live containers hold
\* different values on pages of different protection.
C19_Witness ==
    /\ out = Redacted
    /\ \E a \in Boxes : \E b \in Boxes \ {a} :
          /\ pc[a] = "live" /\ pc[b] = "live"
          /\ inner_secret[a] # inner_secret[b]
          /\ prot[a] = PROT_NONE /\ prot[b] = PROT_READ

====
